---- MODULE Spec2Model ----
(***************************************************************************)
(* A model of ccBench.py: the deep merge of two parsed documents, the      *)
(* copy of one shard entry into a target directory with JSON/TOML merging, *)
(* and the experiment loop of the __main__ block.                          *)
(*                                                                         *)
(* Python objects have identity: a dict or a list lives at an address of   *)
(* a heap and is reached through references, so that an in-place update    *)
(* (list.extend) is seen through every reference to the object.            *)
(***************************************************************************)
EXTENDS Integers, Sequences, FiniteSets, TLC

VARIABLES
    \* the merge specification
    heap,       \* the objects of the current call
    base,       \* the arguments of the current call, as references
    overlay,
    result,     \* what the call returned, None before it returns
    base0,      \* the documents of the arguments before the call
    overlay0,
    last,       \* per top-level key, the scalar last applied to it (0: none)
    nmerge,     \* merges done
    \* the copy specification
    target_dir, \* the target directory
    cprev,      \* the target directory before the last call
    csrc,       \* the source entry of the last call
    cexc,       \* the exception the last call raised, or "none"
    ncopy,      \* calls done
    \* the run specification (the __main__ block)
    experiment_config,    \* the loaded experiment YAML
    args_variant,         \* --variant, "" when not given
    tasks_pool,           \* the directories under TASKS
    pc,                   \* the statement the run is at
    task_i,               \* index of the current task in tasks
    variants_to_process,
    variant_i,            \* index of the current variant in variants_to_process
    shard_i,              \* index of the next shard of the list being copied
    tasks_root,           \* experiment_tasks_root: per task directory its own
                          \* files (root) and its project directory
    experiment_task_dirs,
    invoked,              \* the external scripts run so far, in order
    exit_code,            \* -1 while the run is going on
    stdout,               \* the messages printed, in order
    globbed               \* the pool directories listed so far, found or not

mergeVars == <<heap, base, overlay, result, base0, overlay0, last, nmerge>>
copyVars == <<target_dir, cprev, csrc, cexc, ncopy>>
runVars == <<experiment_config, args_variant, tasks_pool, pc, task_i,
             variants_to_process, variant_i, shard_i, tasks_root,
             experiment_task_dirs, invoked, exit_code, stdout, globbed>>
vars == <<mergeVars, copyVars, runVars>>

(***************************************************************************)
(* Bounds of the model.                                                    *)
(***************************************************************************)
\* number of consecutive merges of one run of the merge specification
MaxMerges == 2
\* number of entries copied into the target directory of the copy specification
MaxCopies == 2
\* longest task list of an experiment of the run specification
MaxTasks == 2

(***************************************************************************)
(* Documents: what json.load / tomllib.load return, as values.             *)
(*   [t |-> "s", v |-> n]        a scalar                                  *)
(*   [t |-> "l", v |-> <<..>>]   a list of documents                       *)
(*   [t |-> "d", v |-> [k |-> ..]] a dict from keys to documents           *)
(***************************************************************************)
Scalar(n) == [t |-> "s", v |-> n]
List(s) == [t |-> "l", v |-> s]
Dict(f) == [t |-> "d", v |-> f]

None == [t |-> "none", v |-> 0]

Keys == {"a", "b"}
InnerKeys == {"x"}
\* the order in which the keys of a dict are visited
KeyOrder == <<"a", "b", "x">>

ScalarValues == {1, 2}
Scalars == {Scalar(n) : n \in ScalarValues}
\* the lists of a generated document: empty, or one scalar
Lists == {List(<<>>)} \cup {List(<<s>>) : s \in Scalars}
Leaves == Scalars \cup Lists
DictsOver(K, V) == {Dict(f) : f \in UNION {[S -> V] : S \in SUBSET K}}
InnerDocs == DictsOver(InnerKeys, Leaves)
\* key "a" may hold a nested dict, key "b" holds a scalar or a list
MergeDocs ==
    {Dict(f) : f \in UNION {{g \in [S -> Leaves \cup InnerDocs] :
                                 "b" \in S => g["b"] \in Leaves} : S \in SUBSET Keys}}

KeySeq(S) == SelectSeq(KeyOrder, LAMBDA k : k \in S)

(***************************************************************************)
(* The heap.  An object is a list or a dict whose elements are values: a   *)
(* scalar, or a reference [t |-> "r", v |-> address].                      *)
(***************************************************************************)
Ref(a) == [t |-> "r", v |-> a]
IsDict(h, val) == val.t = "r" /\ h[val.v].t = "d"
IsList(h, val) == val.t = "r" /\ h[val.v].t = "l"

RECURSIVE Alloc(_, _)
RECURSIVE AllocSeq(_, _)
\* the objects of the documents ds, allocated one after the other
AllocSeq(h, ds) ==
    IF ds = <<>> THEN [h |-> h, vals |-> <<>>]
    ELSE LET a == Alloc(h, Head(ds))
             r == AllocSeq(a.h, Tail(ds))
         IN  [h |-> r.h, vals |-> <<a.val>> \o r.vals]

\* a parser builds a fresh object for every list and dict of a document
Alloc(h, doc) ==
    IF doc.t = "s" THEN [h |-> h, val |-> doc]
    ELSE IF doc.t = "l"
    THEN LET a == AllocSeq(h, doc.v)
         IN  [h |-> Append(a.h, List(a.vals)), val |-> Ref(Len(a.h) + 1)]
    ELSE LET ks == KeySeq(DOMAIN doc.v)
             a == AllocSeq(h, [i \in 1..Len(ks) |-> doc.v[ks[i]]])
             at == [k \in DOMAIN doc.v |->
                      a.vals[CHOOSE i \in 1..Len(ks) : ks[i] = k]]
         IN  [h |-> Append(a.h, Dict(at)), val |-> Ref(Len(a.h) + 1)]

RECURSIVE Deref(_, _)
\* the document a value stands for (its content, as == compares it)
Deref(h, val) ==
    IF val.t = "s" THEN val
    ELSE IF h[val.v].t = "l"
    THEN List([i \in 1..Len(h[val.v].v) |-> Deref(h, h[val.v].v[i])])
    ELSE Dict([k \in DOMAIN h[val.v].v |-> Deref(h, h[val.v].v[k])])

Put(f, k, v) == [x \in DOMAIN f \cup {k} |-> IF x = k THEN v ELSE f[x]]

(***************************************************************************)
(* deep_merge_dict                                                         *)
(***************************************************************************)
\* mutant of ListExtend: the new elements are put in front
ListExtend_Prepend(h, cur, value) == [h EXCEPT ![cur].v = h[value].v \o @]

\* result[key].extend(value): the list at address cur, in place
ListExtend(h, cur, value) == [h EXCEPT ![cur].v = @ \o h[value].v]

\* mutant of SetItem: a key that is present keeps its value
SetItem_KeepExisting(h, r, key, value) ==
    IF key \in DOMAIN h[r].v THEN h ELSE [h EXCEPT ![r].v = Put(@, key, value)]

\* result[key] = value
SetItem(h, r, key, value) == [h EXCEPT ![r].v = Put(@, key, value)]

RECURSIVE deep_merge_dict(_, _, _)
RECURSIVE MergeItems(_, _, _, _)
\* the loop over overlay.items(), ks the keys still to visit
MergeItems(h, r, o, ks) ==
    IF ks = <<>> THEN [h |-> h, ret |-> Ref(r), exc |-> "none"]
    ELSE LET key == Head(ks)
             value == h[o].v[key]
         IN  IF h[r].t = "l"
             \* result is a list: result[key] with a str key
             THEN [h |-> h, ret |-> None, exc |-> "TypeError"]
             ELSE IF key \in DOMAIN h[r].v
             THEN LET cur == h[r].v[key]
                  IN  IF IsDict(h, cur) /\ IsDict(h, value)
                      THEN LET m == deep_merge_dict(h, cur, value)
                           IN  MergeItems(SetItem(m.h, r, key, m.ret), r, o, Tail(ks))
                      ELSE IF IsList(h, cur) /\ IsList(h, value)
                      THEN MergeItems(ListExtend(h, cur.v, value.v), r, o, Tail(ks))
                      ELSE MergeItems(SetItem(h, r, key, value), r, o, Tail(ks))
             ELSE MergeItems(SetItem(h, r, key, value), r, o, Tail(ks))

deep_merge_dict(h, b, o) ==
    IF b.t # "r"
    \* base.copy() of a scalar
    THEN [h |-> h, ret |-> None, exc |-> "AttributeError"]
    ELSE LET h1 == Append(h, h[b.v])     \* result = base.copy(), a shallow copy
             r == Len(h) + 1
         IN  IF ~IsDict(h, o)
             \* overlay.items() of a list or a scalar
             THEN [h |-> h1, ret |-> None, exc |-> "AttributeError"]
             ELSE MergeItems(h1, r, o.v, KeySeq(DOMAIN h[o.v].v))

(***************************************************************************)
(* Files.  The bytes of a file are a text in one of the two formats, which *)
(* denotes a document in a given layout, or bytes that neither parser      *)
(* accepts.  A directory maps names to entries.                            *)
(***************************************************************************)
Text(fmt, style, doc) == [k |-> fmt, s |-> style, d |-> doc]
Opaque(id) == [k |-> "opaque", s |-> id, d |-> None]

File(bytes) == [t |-> "f", b |-> bytes, c |-> <<>>]
Dir(children) == [t |-> "dir", b |-> None, c |-> children]
EmptyDir == Dir(<<>>)

\* Path.suffix of the names of the model
Suffix(name) ==
    CASE name = "settings.json" -> ".json"
      [] name = "config.toml" -> ".toml"
      [] name = "notes.txt" -> ".txt"
      [] name = "run.sh" -> ".sh"
      [] name = "setup.sh" -> ".sh"
      [] name = "prompt.md" -> ".md"
      [] OTHER -> ""

\* the order in which the entries of a directory are visited
NameOrder == <<"config.toml", "notes.txt", "prompt.md", "run.sh",
               "settings.json", "setup.sh", "sub">>
NameSeq(S) == SelectSeq(NameOrder, LAMBDA n : n \in S)

\* json.load: the document of a JSON text, or JSONDecodeError
json_load(bytes) ==
    IF bytes.k = "json" THEN [exc |-> "none", doc |-> bytes.d]
    ELSE [exc |-> "JSONDecodeError", doc |-> None]

\* json.dump(doc, f, indent=2)
json_dump(doc) == Text("json", "indent2", doc)

\* tomllib.load: the table of a TOML text, or TOMLDecodeError
toml_load(bytes) ==
    IF bytes.k = "toml" THEN [exc |-> "none", doc |-> bytes.d]
    ELSE [exc |-> "TOMLDecodeError", doc |-> None]

\* tomli_w.dump(doc, f)
toml_dump(doc) == Text("toml", "tomli_w", doc)

\* source.copy_into(target_dir) of a file: an existing file is replaced
copy_into(name, node, tdir) ==
    IF name \in DOMAIN tdir.c /\ tdir.c[name].t = "dir"
    THEN [dir |-> tdir, exc |-> "IsADirectoryError"]
    ELSE [dir |-> Dir(Put(tdir.c, name, node)), exc |-> "none"]

Load(fmt, bytes) == IF fmt = "json" THEN json_load(bytes) ELSE toml_load(bytes)
Dump(fmt, doc) == IF fmt = "json" THEN json_dump(doc) ELSE toml_dump(doc)

\* deep_merge_dict(b, o) on the freshly parsed documents b and o
MergeParsed(b, o) == deep_merge_dict(Alloc(Alloc(<<>>, b).h, o).h,
                                     Alloc(<<>>, b).val,
                                     Alloc(Alloc(<<>>, b).h, o).val)

\* the target rewritten with the dump of the merged data m, unless the merge raised
WriteMerged(m, name, tdir, fmt) ==
    IF m.exc # "none" THEN [dir |-> tdir, exc |-> m.exc]
    ELSE [dir |-> Dir(Put(tdir.c, name, File(Dump(fmt, Deref(m.h, m.ret))))),
          exc |-> "none"]

\* mutant of MergeLoaded: the incoming document is the base of the merge
MergeLoaded_SwappedBase(sl, tl, name, tdir, fmt) ==
    IF sl.exc # "none" THEN [dir |-> tdir, exc |-> sl.exc]
    ELSE IF tl.exc # "none" THEN [dir |-> tdir, exc |-> tl.exc]
    ELSE WriteMerged(MergeParsed(sl.doc, tl.doc), name, tdir, fmt)

\* the try block once both files are read: sl what loading the source gave,
\* tl what loading the target gave; the target's document is the base
MergeLoaded(sl, tl, name, tdir, fmt) ==
    IF sl.exc # "none" THEN [dir |-> tdir, exc |-> sl.exc]
    ELSE IF tl.exc # "none" THEN [dir |-> tdir, exc |-> tl.exc]
    ELSE WriteMerged(MergeParsed(tl.doc, sl.doc), name, tdir, fmt)

\* the body of the try block of format fmt
MergeInto(name, node, tdir, fmt) ==
    MergeLoaded(Load(fmt, node.b), Load(fmt, tdir.c[name].b), name, tdir, fmt)

\* mutant of Caught: the except clause names KeyError alone
Caught_KeyErrorOnly(exc, fmt) == exc = "KeyError"

\* except (json.JSONDecodeError, KeyError) / (tomllib.TOMLDecodeError, KeyError)
Caught(exc, fmt) ==
    exc \in {IF fmt = "json" THEN "JSONDecodeError" ELSE "TOMLDecodeError", "KeyError"}

\* after the try block gave res: a caught exception falls back to the copy
AfterTry(res, name, node, tdir, fmt) ==
    IF Caught(res.exc, fmt) THEN copy_into(name, node, tdir) ELSE res

RECURSIVE copy_file_with_json_merge(_, _, _)
RECURSIVE CopyChildren(_, _, _)
\* the rest of the loop over the children, after one child's copy gave res
CopyRest(res, names, children) ==
    IF res.exc # "none" THEN res ELSE CopyChildren(names, children, res.dir)

\* for child in source.iterdir(): copy_file_with_json_merge(child, target)
CopyChildren(names, children, target) ==
    IF names = <<>> THEN [dir |-> target, exc |-> "none"]
    ELSE CopyRest(copy_file_with_json_merge(Head(names), children[Head(names)], target),
                  Tail(names), children)

\* the directory `name` of tdir replaced by what the copy of the children gave
InDir(res, name, tdir) == [dir |-> Dir(Put(tdir.c, name, res.dir)), exc |-> res.exc]

\* copy_file_with_json_merge(source, target_dir), source the entry `node`
\* called `name`: the target directory afterwards, and the exception raised
copy_file_with_json_merge(name, node, tdir) ==
    LET exists == name \in DOMAIN tdir.c
        is_file == exists /\ tdir.c[name].t = "f"
    IN  IF node.t = "dir"
        THEN IF is_file
             \* target.mkdir(exist_ok=True) on an existing file
             THEN [dir |-> tdir, exc |-> "FileExistsError"]
             ELSE InDir(CopyChildren(NameSeq(DOMAIN node.c), node.c,
                                     IF exists THEN tdir.c[name] ELSE EmptyDir),
                        name, tdir)
        \* the merge returns, or raises what its except clause does not name
        ELSE IF Suffix(name) = ".json" /\ is_file
        THEN AfterTry(MergeInto(name, node, tdir, "json"), name, node, tdir, "json")
        ELSE IF Suffix(name) = ".toml" /\ is_file
        THEN AfterTry(MergeInto(name, node, tdir, "toml"), name, node, tdir, "toml")
        ELSE copy_into(name, node, tdir)

NoConfig == [tasks |-> <<>>, configs |-> <<>>, variants_declared |-> FALSE,
             variants |-> <<>>, evals |-> <<>>]

RunIdle ==
    /\ experiment_config = NoConfig
    /\ args_variant = ""
    /\ tasks_pool = <<>>
    /\ pc = "idle"
    /\ task_i = 0
    /\ variants_to_process = <<>>
    /\ variant_i = 0
    /\ shard_i = 0
    /\ tasks_root = <<>>
    /\ experiment_task_dirs = <<>>
    /\ invoked = <<>>
    /\ exit_code = -1
    /\ stdout = <<>>
    /\ globbed = {}

NoSource == [name |-> "", node |-> EmptyDir]

CopyIdle ==
    /\ target_dir = EmptyDir
    /\ cprev = EmptyDir
    /\ csrc = NoSource
    /\ cexc = "none"
    /\ ncopy = 0

\* ghost: per top-level key, the scalar last applied to it, or 0
LastAfter(l, o) ==
    [k \in DOMAIN l \cup DOMAIN o.v |->
        IF k \in DOMAIN o.v
        THEN (IF o.v[k].t = "s" THEN o.v[k].v ELSE 0)
        ELSE l[k]]

MergeIdle ==
    /\ heap = <<>>
    /\ base = None
    /\ overlay = None
    /\ result = None
    /\ base0 = None
    /\ overlay0 = None
    /\ last = <<>>
    /\ nmerge = 0

MergeInit ==
    \E b \in MergeDocs :
        /\ CopyIdle
        /\ RunIdle
        /\ heap = <<>>
        /\ base = None
        /\ overlay = None
        /\ result = None
        /\ base0 = b
        /\ overlay0 = None
        /\ last = LastAfter(<<>>, b)
        /\ nmerge = 0

\* result = deep_merge_dict(base, overlay), base and overlay freshly built
Merge(o) ==
    /\ result = None
    /\ nmerge < MaxMerges
    /\ LET a1 == Alloc(<<>>, base0)
           a2 == Alloc(a1.h, o)
           m == deep_merge_dict(a2.h, a1.val, a2.val)
       IN  /\ heap' = m.h
           /\ base' = a1.val
           /\ overlay' = a2.val
           /\ result' = m.ret
           /\ overlay0' = o
           /\ last' = LastAfter(last, o)
           /\ nmerge' = nmerge + 1
           /\ UNCHANGED <<base0, copyVars, runVars>>

\* the caller keeps the result as the base of its next merge and drops the
\* arguments of this one
Rebase ==
    /\ result # None
    /\ nmerge < MaxMerges
    /\ base0' = Deref(heap, result)
    /\ heap' = <<>>
    /\ base' = None
    /\ overlay' = None
    /\ result' = None
    /\ overlay0' = None
    /\ UNCHANGED <<last, nmerge, copyVars, runVars>>

MergeNext ==
    \/ \E o \in MergeDocs : Merge(o)
    \/ Rebase

SpecMerge == MergeInit /\ [][MergeNext]_vars

Returned == result # None
ResultDoc == Deref(heap, result)

\* C1: after deep_merge_dict(base, overlay) returns, the content of base and
\* the content of overlay are what they were before the call.
C1_InputsUnchanged ==
    Returned => /\ Deref(heap, base) = base0
                /\ Deref(heap, overlay) = overlay0

(***************************************************************************)
(* The copy specification: entries copied one after the other into a       *)
(* target directory that starts empty, until a call raises.                *)
(***************************************************************************)
\* the mappings a structured file of the model may hold
FileDocs == {d \in MergeDocs : DOMAIN d.v \subseteq {"a"}}
\* JSON documents whose top level is a list or a scalar
NonMappings == {List(<<>>), List(<<Scalar(1)>>), Scalar(1)}
JsonBytes ==
    {Text("json", "authored", d) : d \in FileDocs \cup NonMappings}
        \cup {Opaque("not valid json{")}
TomlBytes ==
    {Text("toml", "authored", d) : d \in FileDocs} \cup {Opaque("not valid toml [[[")}
SubDirs ==
    {<<>>} \cup {[n \in {"settings.json"} |->
                    File(Text("json", "authored", Dict([a |-> l])))] : l \in Lists}
Sources ==
    {[name |-> "settings.json", node |-> File(b)] : b \in JsonBytes}
        \cup {[name |-> "config.toml", node |-> File(b)] : b \in TomlBytes}
        \cup {[name |-> "notes.txt", node |-> File(Opaque(i))] : i \in {"old", "new"}}
        \cup {[name |-> "sub", node |-> Dir(c)] : c \in SubDirs}

CopyInit == MergeIdle /\ CopyIdle /\ RunIdle

\* the call gave res: the directory afterwards and the exception raised
Copied(res) ==
    /\ target_dir' = res.dir
    /\ cexc' = res.exc

\* copy_file_with_json_merge(src, target_dir)
Copy(src) ==
    /\ ncopy < MaxCopies
    /\ cexc = "none"
    /\ Copied(copy_file_with_json_merge(src.name, src.node, target_dir))
    /\ cprev' = target_dir
    /\ csrc' = src
    /\ ncopy' = ncopy + 1
    /\ UNCHANGED <<mergeVars, runVars>>

CopyNext == \E src \in Sources : Copy(src)

SpecCopy == CopyInit /\ [][CopyNext]_vars

(***************************************************************************)
(* The run specification: the __main__ block from the task loop on, one    *)
(* action per statement group.                                             *)
(***************************************************************************)
Script(id) == File(Opaque(id))
SettingsJson(doc) == File(Text("json", "authored", doc))

\* FORGE: the config shards.  "S0" names no directory.
FORGE ==
    [S1 |-> Dir([n \in {"settings.json"} |->
                    SettingsJson(Dict([a |-> List(<<Scalar(1)>>)]))]),
     S2 |-> Dir([n \in {"settings.json"} |->
                    SettingsJson(Dict([a |-> List(<<Scalar(2)>>), b |-> Scalar(2)]))]),
     S3 |-> Dir([n \in {"run.sh", "prompt.md"} |->
                    IF n = "run.sh" THEN Script("S3/run.sh") ELSE Script("S3/prompt.md")])]

\* the trees a directory under TASKS may hold: files named ns, settings.json
\* a mapping, the others opaque
TaskTree(ns) ==
    Dir([n \in ns |-> IF n = "settings.json"
                      THEN SettingsJson(Dict([a |-> List(<<Scalar(2)>>)]))
                      ELSE Script(n)])
TaskTrees ==
    {TaskTree(ns) : ns \in {{"run.sh", "prompt.md"},
                            {"run.sh", "prompt.md", "settings.json"},
                            {"run.sh", "prompt.md", "setup.sh"},
                            {"prompt.md"},
                            {"run.sh"}}}
TaskNames == {"T1", "T2"}
TaskPools == UNION {[S -> TaskTrees] : S \in SUBSET TaskNames}

\* the task lists: the sequences without repetition of at most MaxTasks names
TaskLists ==
    {q \in UNION {[1..m -> TaskNames] : m \in 0..MaxTasks} :
        \A i, j \in DOMAIN q : i # j => q[i] # q[j]}
ConfigLists == {<<"S1">>, <<"S1", "S0">>, <<"S3", "S1">>}
Variant(vname, vconfigs) == [name |-> vname, configs |-> vconfigs]
\* the variants mapping: not declared, empty, or an ordered mapping
VariantDecls ==
    {[declared |-> FALSE, items |-> <<>>],
     [declared |-> TRUE, items |-> <<>>],
     [declared |-> TRUE, items |-> <<Variant("V1", <<"S2">>)>>],
     [declared |-> TRUE, items |-> <<Variant("V1", <<"S2">>), Variant("V2", <<>>)>>]}
VariantArgs == {"", "V1", "VX"}
Configs ==
    {[tasks |-> ts, configs |-> cs, variants_declared |-> vd.declared,
      variants |-> vd.items, evals |-> <<"E1">>] :
        ts \in TaskLists, cs \in ConfigLists, vd \in VariantDecls}

Last(q) == q[Len(q)]

RECURSIVE Join(_, _)
\* sep.join(q)
Join(q, sep) ==
    IF q = <<>> THEN ""
    ELSE IF Len(q) = 1 THEN q[1]
    ELSE q[1] \o sep \o Join(Tail(q), sep)

RunInit ==
    /\ MergeIdle
    /\ CopyIdle
    /\ experiment_config \in Configs
    /\ args_variant \in VariantArgs
    /\ tasks_pool \in TaskPools
    /\ pc = "tasks"
    /\ task_i = 1
    /\ variants_to_process = <<>>
    /\ variant_i = 0
    /\ shard_i = 0
    /\ tasks_root = <<>>
    /\ experiment_task_dirs = <<>>
    /\ invoked = <<>>
    /\ exit_code = -1
    /\ stdout = <<>>
    /\ globbed = {}

task == experiment_config.tasks[task_i]
variant_name == variants_to_process[variant_i].name
variant_configs == variants_to_process[variant_i].configs
\* mutant of experiment_task_root: the variant suffix is dropped
experiment_task_root_NoSuffix == task

\* experiment_task_root, as its name under experiment_tasks_root
experiment_task_root ==
    IF variant_name # "" THEN task \o "_" \o variant_name ELSE task
project_dir == tasks_root[experiment_task_root].project
task_root_files == tasks_root[experiment_task_root].root

\* exit(1), sys.exit(message) or an uncaught exception, after printing lines
\* (stdout holds the lines of both output streams)
Exit(code, lines) ==
    /\ pc' = "exited"
    /\ exit_code' = code
    /\ stdout' = stdout \o lines

\* lines 147-172: the variants to process for the current task
SelectVariants ==
    /\ pc = "tasks"
    /\ task_i <= Len(experiment_config.tasks)
    /\ IF experiment_config.variants_declared /\ experiment_config.variants # <<>>
       THEN LET all_variants == experiment_config.variants
                matching_variants ==
                    SelectSeq(all_variants, LAMBDA v : v.name = args_variant)
            IN  IF args_variant # ""
                THEN IF matching_variants = <<>>
                     THEN /\ Exit(1, <<"Error: Variant '" \o args_variant
                                          \o "' not found in experiment.",
                                      "Available variants: "
                                          \o Join([i \in DOMAIN all_variants |->
                                                      all_variants[i].name], ", ")>>)
                          /\ UNCHANGED <<variants_to_process, variant_i>>
                     ELSE /\ variants_to_process' = matching_variants
                          /\ variant_i' = 1
                          /\ pc' = "variants"
                          /\ UNCHANGED <<exit_code, stdout>>
                ELSE /\ variants_to_process' = all_variants
                     /\ variant_i' = 1
                     /\ pc' = "variants"
                     /\ UNCHANGED <<exit_code, stdout>>
       ELSE IF args_variant # ""
            THEN /\ Exit(1, <<"Error: --variant specified but experiment has no variants.">>)
                 /\ UNCHANGED <<variants_to_process, variant_i>>
            ELSE /\ variants_to_process' = <<Variant("", <<>>)>>
                 /\ variant_i' = 1
                 /\ pc' = "variants"
                 /\ UNCHANGED <<exit_code, stdout>>
    /\ UNCHANGED <<experiment_config, args_variant, tasks_pool, task_i, shard_i,
                   tasks_root, experiment_task_dirs, invoked, globbed>>
    /\ UNCHANGED <<mergeVars, copyVars>>

\* the task loop is over: the script ends
Finish ==
    /\ pc = "tasks"
    /\ task_i > Len(experiment_config.tasks)
    /\ Exit(0, <<>>)
    /\ UNCHANGED <<experiment_config, args_variant, tasks_pool, task_i,
                   variants_to_process, variant_i, shard_i, tasks_root,
                   experiment_task_dirs, invoked, globbed>>
    /\ UNCHANGED <<mergeVars, copyVars>>

\* where the copy of the shard lists stands: past the end of the base list
\* the variant list starts, past its end the task's files are copied
AfterShard(phase, i) ==
    IF phase = "base" /\ i <= Len(experiment_config.configs)
    THEN [pc |-> "base", i |-> i]
    ELSE IF phase = "base"
    THEN (IF 1 <= Len(variant_configs)
          THEN [pc |-> "variant_configs", i |-> 1]
          ELSE [pc |-> "task_files", i |-> 0])
    ELSE IF i <= Len(variant_configs)
    THEN [pc |-> "variant_configs", i |-> i]
    ELSE [pc |-> "task_files", i |-> 0]

\* lines 174-186: experiment_task_root.mkdir(), project_dir.mkdir()
MakeTaskDir ==
    /\ pc = "variants"
    /\ IF experiment_task_root \in DOMAIN tasks_root
       THEN /\ Exit(1, <<"FileExistsError">>)
            /\ UNCHANGED <<tasks_root, experiment_task_dirs, shard_i>>
       ELSE /\ tasks_root' = Put(tasks_root, experiment_task_root,
                                 [root |-> <<>>, project |-> EmptyDir])
            /\ experiment_task_dirs' = Append(experiment_task_dirs, experiment_task_root)
            /\ pc' = AfterShard("base", 1).pc
            /\ shard_i' = AfterShard("base", 1).i
            /\ UNCHANGED <<exit_code, stdout>>
    /\ UNCHANGED <<experiment_config, args_variant, tasks_pool, task_i,
                   variants_to_process, variant_i, invoked, globbed>>
    /\ UNCHANGED <<mergeVars, copyVars>>

\* for f in d.glob("*"): copy_file_with_json_merge(f, project_dir), d the
\* directory of config_shard under FORGE: a missing directory lists nothing
CopyShardFiles(config_shard, tdir) ==
    IF config_shard \in DOMAIN FORGE
    THEN CopyChildren(NameSeq(DOMAIN FORGE[config_shard].c), FORGE[config_shard].c, tdir)
    ELSE [dir |-> tdir, exc |-> "none"]

\* one iteration of a loop over a shard list, res what the copy of the
\* shard's files gave
CopiedShard(res, phase, config_shard) ==
    /\ tasks_root' = [tasks_root EXCEPT ![experiment_task_root].project = res.dir]
    /\ IF res.exc # "none"
       THEN Exit(1, <<res.exc>>) /\ UNCHANGED shard_i
       ELSE /\ pc' = AfterShard(phase, shard_i + 1).pc
            /\ shard_i' = AfterShard(phase, shard_i + 1).i
            /\ UNCHANGED <<exit_code, stdout>>
    /\ globbed' = globbed \cup {[pool |-> "FORGE", name |-> config_shard,
                                 found |-> config_shard \in DOMAIN FORGE]}
    /\ UNCHANGED <<experiment_config, args_variant, tasks_pool, task_i,
                   variants_to_process, variant_i, experiment_task_dirs, invoked>>
    /\ UNCHANGED <<mergeVars, copyVars>>

CopyShard(phase, config_shard) ==
    CopiedShard(CopyShardFiles(config_shard, project_dir), phase, config_shard)

\* lines 188-192: for config_shard in experiment_config["configs"]
CopyBaseShard ==
    /\ pc = "base"
    /\ CopyShard("base", experiment_config.configs[shard_i])

\* lines 194-198: for config_shard in variant_configs
CopyVariantShard ==
    /\ pc = "variant_configs"
    /\ CopyShard("variant_configs", variant_configs[shard_i])

RECURSIVE CopyIntoAll(_, _, _)
\* the rest of the loop over the task's files, after one copy gave res
CopyIntoRest(res, entries, children) ==
    IF res.exc # "none" THEN res ELSE CopyIntoAll(entries, children, res.dir)

\* for f in task_dir.glob("*"): f.copy_into(project_dir)
CopyIntoAll(entries, children, tdir) ==
    IF entries = <<>> THEN [dir |-> tdir, exc |-> "none"]
    ELSE CopyIntoRest(copy_into(Head(entries), children[Head(entries)], tdir),
                      Tail(entries), children)

\* the files of task_dir copied into tdir: a missing directory lists nothing
CopyTaskDir(task_name, tdir) ==
    IF task_name \in DOMAIN tasks_pool
    THEN CopyIntoAll(NameSeq(DOMAIN tasks_pool[task_name].c), tasks_pool[task_name].c, tdir)
    ELSE [dir |-> tdir, exc |-> "none"]

\* the task's files are copied, res what the copy gave
CopiedTaskFiles(res) ==
    /\ tasks_root' = [tasks_root EXCEPT ![experiment_task_root].project = res.dir]
    /\ IF res.exc # "none"
       THEN Exit(1, <<res.exc>>)
       ELSE pc' = "entrypoint" /\ UNCHANGED <<exit_code, stdout>>

\* lines 200-202
CopyTaskFiles ==
    /\ pc = "task_files"
    /\ CopiedTaskFiles(CopyTaskDir(task, project_dir))
    /\ globbed' = globbed \cup {[pool |-> "TASKS", name |-> task,
                                 found |-> task \in DOMAIN tasks_pool]}
    /\ UNCHANGED <<experiment_config, args_variant, tasks_pool, task_i,
                   variants_to_process, variant_i, shard_i, experiment_task_dirs,
                   invoked>>
    /\ UNCHANGED <<mergeVars, copyVars>>

Without(f, k) == [x \in DOMAIN f \ {k} |-> f[x]]

\* file.move_into(experiment_task_root), file an entry of project_dir
MoveIntoTaskRoot(file) ==
    tasks_root' = [tasks_root EXCEPT
                     ![experiment_task_root].root = Put(@, file, project_dir.c[file]),
                     ![experiment_task_root].project = Dir(Without(@.c, file))]

EntrypointMissing(dir) == "Experiment entrypoint '" \o dir \o "/project/run.sh' not found."
PromptMissing(dir) == "Experiment prompt file '" \o dir \o "/project/prompt.md' not found."

\* lines 204-208
MoveEntrypoint ==
    /\ pc = "entrypoint"
    /\ IF "run.sh" \notin DOMAIN project_dir.c
       THEN /\ Exit(1, <<EntrypointMissing(experiment_task_root)>>)
            /\ UNCHANGED tasks_root
       ELSE /\ MoveIntoTaskRoot("run.sh")
            /\ pc' = "prompt"
            /\ UNCHANGED <<exit_code, stdout>>
    /\ UNCHANGED <<experiment_config, args_variant, tasks_pool, task_i,
                   variants_to_process, variant_i, shard_i, experiment_task_dirs,
                   invoked, globbed>>
    /\ UNCHANGED <<mergeVars, copyVars>>

\* lines 210-213
MovePrompt ==
    /\ pc = "prompt"
    /\ IF "prompt.md" \notin DOMAIN project_dir.c
       THEN /\ Exit(1, <<PromptMissing(experiment_task_root)>>)
            /\ UNCHANGED tasks_root
       ELSE /\ MoveIntoTaskRoot("prompt.md")
            /\ pc' = "manifest"
            /\ UNCHANGED <<exit_code, stdout>>
    /\ UNCHANGED <<experiment_config, args_variant, tasks_pool, task_i,
                   variants_to_process, variant_i, shard_i, experiment_task_dirs,
                   invoked, globbed>>
    /\ UNCHANGED <<mergeVars, copyVars>>

\* "\n".join(str(f.relative_to(experiment_task_root)) for f in
\* project_dir.glob("*")) + "\n": the text of INITIAL_FILES
Manifest(tdir) ==
    File([k |-> "lines",
          s |-> Join([i \in DOMAIN NameSeq(DOMAIN tdir.c) |->
                         "project/" \o NameSeq(DOMAIN tdir.c)[i]], "\n") \o "\n",
          d |-> None])

\* lines 215-225: INITIAL_FILES written, then chmod and git init
WriteManifest ==
    /\ pc = "manifest"
    /\ tasks_root' = [tasks_root EXCEPT
                        ![experiment_task_root].root =
                            Put(@, "INITIAL_FILES", Manifest(project_dir))]
    /\ pc' = "setup"
    /\ UNCHANGED <<experiment_config, args_variant, tasks_pool, task_i,
                   variants_to_process, variant_i, shard_i, experiment_task_dirs,
                   invoked, exit_code, stdout, globbed>>
    /\ UNCHANGED <<mergeVars, copyVars>>

Invocation(script) == [script |-> script, dir |-> experiment_task_root]

\* lines 227-234: setup.sh, when project_dir has one; its status only warns
RunSetup ==
    /\ pc = "setup"
    /\ IF "setup.sh" \in DOMAIN project_dir.c
       THEN \E status \in {0, 256} :
               /\ invoked' = Append(invoked, Invocation("setup.sh"))
               /\ stdout' = stdout \o <<"Running setup script for task: " \o task>>
                              \o (IF status # 0
                                  THEN <<"Warning: Setup script exited with code 256">>
                                  ELSE <<>>)
       ELSE UNCHANGED <<invoked, stdout>>
    /\ pc' = "run"
    /\ UNCHANGED <<experiment_config, args_variant, tasks_pool, task_i,
                   variants_to_process, variant_i, shard_i, tasks_root,
                   experiment_task_dirs, exit_code, globbed>>
    /\ UNCHANGED <<mergeVars, copyVars>>

\* lines 236-239: os.system("./run.sh")
RunTask ==
    /\ pc = "run"
    /\ stdout' = Append(stdout, "Running task: " \o
                          (IF variant_name # ""
                           THEN task \o " with variant " \o variant_name ELSE task))
    /\ invoked' = Append(invoked, Invocation("run.sh"))
    /\ pc' = "evals"
    /\ UNCHANGED <<experiment_config, args_variant, tasks_pool, task_i,
                   variants_to_process, variant_i, shard_i, tasks_root,
                   experiment_task_dirs, exit_code, globbed>>
    /\ UNCHANGED <<mergeVars, copyVars>>

\* lines 241-243: every evaluator's run.sh; then the next variant, or the
\* next task
RunEvals ==
    /\ pc = "evals"
    /\ invoked' = invoked \o [i \in DOMAIN experiment_config.evals |->
                                Invocation("evals/" \o experiment_config.evals[i]
                                               \o "/run.sh")]
    /\ IF variant_i < Len(variants_to_process)
       THEN /\ variant_i' = variant_i + 1
            /\ pc' = "variants"
            /\ UNCHANGED task_i
       ELSE /\ task_i' = task_i + 1
            /\ pc' = "tasks"
            /\ UNCHANGED variant_i
    /\ UNCHANGED <<experiment_config, args_variant, tasks_pool,
                   variants_to_process, shard_i, tasks_root,
                   experiment_task_dirs, exit_code, stdout, globbed>>
    /\ UNCHANGED <<mergeVars, copyVars>>

RunNext ==
    \/ SelectVariants
    \/ Finish
    \/ MakeTaskDir
    \/ CopyBaseShard
    \/ CopyVariantShard
    \/ CopyTaskFiles
    \/ MoveEntrypoint
    \/ MovePrompt
    \/ WriteManifest
    \/ RunSetup
    \/ RunTask
    \/ RunEvals

SpecRun == RunInit /\ [][RunNext]_vars

\* the keys present in both a and b
Shared(a, b) == DOMAIN a.v \cap DOMAIN b.v

RECURSIVE ListsConcatenated(_, _, _)
\* in r, every list-valued key shared by b and o holds b's elements followed
\* by o's, at this level and below every dict-valued key shared by b and o
ListsConcatenated(b, o, r) ==
    \A k \in Shared(b, o) :
        /\ (b.v[k].t = "l" /\ o.v[k].t = "l") =>
               (k \in DOMAIN r.v /\ r.v[k] = List(b.v[k].v \o o.v[k].v))
        /\ (b.v[k].t = "d" /\ o.v[k].t = "d") =>
               (k \in DOMAIN r.v /\ r.v[k].t = "d"
                  /\ ListsConcatenated(b.v[k], o.v[k], r.v[k]))

\* C2: for a key shared by base and overlay whose value is a list in both,
\* the result holds base's elements followed by overlay's, in order and with
\* duplicates kept, at every depth reached through dicts present in both.
C2_ListsConcatenated ==
    Returned => ListsConcatenated(base0, overlay0, ResultDoc)

\* a merge has concatenated two non-empty lists under a nested shared dict,
\* and two equal lists at the top level
C2_Witness ==
    /\ Returned
    /\ {"a", "b"} \subseteq Shared(base0, overlay0)
    /\ base0.v["a"].t = "d" /\ overlay0.v["a"].t = "d"
    /\ "x" \in Shared(base0.v["a"], overlay0.v["a"])
    /\ base0.v["a"].v["x"] = List(<<Scalar(1)>>)
    /\ overlay0.v["a"].v["x"] = List(<<Scalar(2)>>)
    /\ ResultDoc.v["a"].v["x"] = List(<<Scalar(1), Scalar(2)>>)
    /\ base0.v["b"] = List(<<Scalar(2)>>)
    /\ overlay0.v["b"] = List(<<Scalar(2)>>)
    /\ ResultDoc.v["b"] = List(<<Scalar(2), Scalar(2)>>)

RECURSIVE OverlayWins(_, _, _)
\* in r, every key shared by b and o whose two values are neither both dicts
\* nor both lists holds o's value, at this level and below shared dicts
OverlayWins(b, o, r) ==
    \A k \in Shared(b, o) :
        IF b.v[k].t = "d" /\ o.v[k].t = "d"
        THEN k \in DOMAIN r.v /\ r.v[k].t = "d" /\ OverlayWins(b.v[k], o.v[k], r.v[k])
        ELSE IF b.v[k].t = "l" /\ o.v[k].t = "l"
        THEN TRUE
        ELSE k \in DOMAIN r.v /\ r.v[k] = o.v[k]

\* C3: a shared key whose two values are neither both dicts nor both lists
\* ends with overlay's value; and over a sequence of merges a key whose
\* last-applied value is a scalar holds that scalar.
C3_OverlayWins ==
    Returned =>
        /\ OverlayWins(base0, overlay0, ResultDoc)
        /\ \A k \in DOMAIN last :
               last[k] # 0 => (k \in DOMAIN ResultDoc.v /\ ResultDoc.v[k] = Scalar(last[k]))

\* a second merge whose overlay omits a key: the key keeps the scalar that
\* the first merge wrote over a list, and the other key's scalar is replaced
C3_Witness ==
    /\ Returned
    /\ nmerge = 2
    /\ "a" \notin DOMAIN overlay0.v
    /\ "a" \in DOMAIN last /\ last["a"] = 2
    /\ base0.v["a"] = Scalar(2)
    /\ ResultDoc.v["a"] = Scalar(2)
    /\ "b" \in Shared(base0, overlay0)
    /\ base0.v["b"] = Scalar(1) /\ overlay0.v["b"] = Scalar(2)
    /\ ResultDoc.v["b"] = Scalar(2)
\* the last call copied a .json or .toml file onto an existing file of its name
Collides ==
    /\ ncopy >= 1
    /\ csrc.node.t = "f"
    /\ Suffix(csrc.name) \in {".json", ".toml"}
    /\ csrc.name \in DOMAIN cprev.c
    /\ cprev.c[csrc.name].t = "f"

Fmt == IF Suffix(csrc.name) = ".json" THEN "json" ELSE "toml"
Incoming == Load(Fmt, csrc.node.b)
Existing == Load(Fmt, cprev.c[csrc.name].b)
Parsed(l) == l.exc = "none"
ParsedMapping(l) == l.exc = "none" /\ l.doc.t = "d"

ResultOf(m) == Deref(m.h, m.ret)

\* deep_merge_dict(b, o) computed directly on two documents
merge_directly(b, o) == ResultOf(MergeParsed(b, o))

\* C4: a file copied into a directory that lacks its name arrives unchanged,
\* and a .json or .toml file copied onto an existing file of its name, both
\* parsing to a mapping, leaves a file whose document is
\* deep_merge_dict(existing document, incoming document).
C4_CopyEqualsMerge ==
    /\ (ncopy >= 1 /\ csrc.node.t = "f" /\ csrc.name \notin DOMAIN cprev.c) =>
           (cexc = "none" /\ target_dir.c[csrc.name] = csrc.node)
    /\ (Collides /\ ParsedMapping(Incoming) /\ ParsedMapping(Existing)) =>
           /\ cexc = "none"
           /\ target_dir.c[csrc.name].t = "f"
           /\ Parsed(Load(Fmt, target_dir.c[csrc.name].b))
           /\ Load(Fmt, target_dir.c[csrc.name].b).doc
                  = merge_directly(Existing.doc, Incoming.doc)

\* settings.json of a first shard, then settings.json of a second shard, copied
\* into the empty directory: the nested lists are concatenated in the file
C4_Witness ==
    /\ ncopy = 2
    /\ Collides
    /\ csrc.name = "settings.json"
    /\ cprev.c = [n \in {"settings.json"} |->
                    File(Text("json", "authored",
                              Dict([a |-> Dict([x |-> List(<<Scalar(1)>>)])])))]
    /\ csrc.node = File(Text("json", "authored",
                             Dict([a |-> Dict([x |-> List(<<Scalar(2)>>)])])))
    /\ target_dir.c["settings.json"] =
           File(Text("json", "indent2",
                     Dict([a |-> Dict([x |-> List(<<Scalar(1), Scalar(2)>>)])])))

\* C5: when a .json or .toml file is copied onto an existing file of its name
\* and the incoming or the existing file fails to parse, the call returns
\* without raising and the destination holds the incoming file's bytes.
C5_ParseFailureOverwrites ==
    (Collides /\ (~Parsed(Incoming) \/ ~Parsed(Existing))) =>
        (cexc = "none" /\ target_dir.c[csrc.name] = csrc.node)

\* an unparseable config.toml copied onto a valid one has replaced it
C5_Witness ==
    /\ Collides
    /\ csrc.name = "config.toml"
    /\ Parsed(Existing)
    /\ ~Parsed(Incoming)
    /\ cexc = "none"
    /\ target_dir.c["config.toml"] = File(Opaque("not valid toml [[["))

\* C6: when a .json or .toml file is copied onto an existing file of its name
\* and either side is valid but its top level is not a mapping, the call does
\* not abort and the destination holds the incoming file's bytes.
C6_NonMappingOverwrites ==
    (Collides /\ \/ (Parsed(Incoming) /\ Incoming.doc.t # "d")
                 \/ (Parsed(Existing) /\ Existing.doc.t # "d")) =>
        (cexc = "none" /\ target_dir.c[csrc.name] = csrc.node)

\* the variant filter names nothing the declaration has
FilterInvalid ==
    /\ args_variant # ""
    /\ \/ ~experiment_config.variants_declared
       \/ experiment_config.variants = <<>>
       \/ \A i \in DOMAIN experiment_config.variants :
              experiment_config.variants[i].name # args_variant

\* the names of the declared variants, in declaration order
DeclaredNames ==
    [i \in DOMAIN experiment_config.variants |-> experiment_config.variants[i].name]

\* the run ended on the message of a missing run.sh or prompt.md
MissingFileAbort ==
    /\ pc = "exited"
    /\ stdout # <<>>
    /\ \E d \in DOMAIN tasks_root :
           Last(stdout) \in {EntrypointMissing(d), PromptMissing(d)}

\* C7: when the materialized tree of some task lacks run.sh or prompt.md the
\* run ends with a non-zero outcome and no external script was invoked before
\* that; and a script is invoked in a task directory only once the directory
\* is materialized and its manifest written.
C7_FatalBeforeAnyScript ==
    /\ MissingFileAbort => (exit_code # 0 /\ invoked = <<>>)
    /\ \A i \in DOMAIN invoked :
           /\ invoked[i].dir \in DOMAIN tasks_root
           /\ "INITIAL_FILES" \in DOMAIN tasks_root[invoked[i].dir].root

\* the task's own tree and the destination both hold a settings.json that
\* parses to a mapping, and the task's files are about to be copied
TaskFileCollides ==
    /\ pc = "task_files"
    /\ task \in DOMAIN tasks_pool
    /\ "settings.json" \in DOMAIN tasks_pool[task].c
    /\ "settings.json" \in DOMAIN project_dir.c
    /\ ParsedMapping(json_load(tasks_pool[task].c["settings.json"].b))
    /\ ParsedMapping(json_load(project_dir.c["settings.json"].b))

\* C8: the task's own tree is applied like a shard: its settings.json, copied
\* onto a settings.json the shards left in the destination, leaves the
\* deep merge of the two documents (existing the base, the task's the overlay).
C8_TaskTreeMerged ==
    [][TaskFileCollides =>
          json_load(tasks_root'[experiment_task_root].project.c["settings.json"].b).doc
              = merge_directly(json_load(project_dir.c["settings.json"].b).doc,
                               json_load(tasks_pool[task].c["settings.json"].b).doc)]_vars

\* C9: with a variant filter that names no declared variant, whatever the
\* task list, nothing is materialized, the run ends with a non-zero outcome,
\* and when variants are declared the last line printed lists their names,
\* in declaration order, joined by ", ".
C9_InvalidFilterFails ==
    FilterInvalid =>
        /\ tasks_root = <<>>
        /\ pc = "exited" =>
               /\ exit_code # 0
               /\ (experiment_config.variants # <<>>) =>
                      (/\ stdout # <<>>
                       /\ Last(stdout) = "Available variants: "
                                             \o Join(DeclaredNames, ", "))

\* C10: once a shard name or a task name with no directory in its pool was
\* looked up, the run is over with a non-zero outcome.
C10_MissingNameAborts ==
    (\E g \in globbed : ~g.found) => (pc = "exited" /\ exit_code # 0)

\* tasks/<task>, or tasks/<task>_<variant> for a non-empty variant name
Destination(t, v) == IF v # "" THEN t \o "_" \o v ELSE t

RECURSIVE Planned(_, _)
\* the destinations of one ExperimentTask per (task, variant name): task
\* order outer, the order of vs inner
Planned(ts, vs) ==
    IF ts = <<>> THEN <<>>
    ELSE [i \in DOMAIN vs |-> Destination(Head(ts), vs[i])] \o Planned(Tail(ts), vs)

\* what the declaration plans with no variant filter
PlannedDirs ==
    Planned(experiment_config.tasks,
            IF experiment_config.variants # <<>> THEN DeclaredNames ELSE <<"">>)

IsPrefix(p, q) == Len(p) <= Len(q) /\ SubSeq(q, 1, Len(p)) = p

\* the directories in which run.sh was run, in order
RanIn ==
    LET runs == SelectSeq(invoked, LAMBDA c : c.script = "run.sh")
    IN  [i \in DOMAIN runs |-> runs[i].dir]

\* C11: with no variant filter the task directories are made, and the tasks
\* run, in the planned order: one per (task, variant) with task order outer
\* and declaration order inner, at tasks/<task>_<variant>, or one per task at
\* tasks/<task> without variants; a run that ends normally has made and run
\* exactly the planned ones, each once.
C11_OnePerTaskVariant ==
    args_variant = "" =>
        /\ IsPrefix(experiment_task_dirs, PlannedDirs)
        /\ IsPrefix(RanIn, experiment_task_dirs)
        /\ DOMAIN tasks_root = {experiment_task_dirs[i] : i \in DOMAIN experiment_task_dirs}
        /\ (pc = "exited" /\ exit_code = 0) =>
               (experiment_task_dirs = PlannedDirs /\ RanIn = PlannedDirs)

\* tasks [T1, T2] with variants [V1, V2] ran to the end
C11_Witness ==
    /\ args_variant = ""
    /\ pc = "exited"
    /\ exit_code = 0
    /\ experiment_config.tasks = <<"T1", "T2">>
    /\ DeclaredNames = <<"V1", "V2">>
    /\ experiment_task_dirs = <<"T1_V1", "T1_V2", "T2_V1", "T2_V2">>
    /\ RanIn = <<"T1_V1", "T1_V2", "T2_V1", "T2_V2">>

====
